---- MODULE Spec2Model ----
(***************************************************************************)
(* Model of the colorcet user-guide notebook                               *)
(* (examples/user_guide/index.ipynb): the swatch renderer colormap, the    *)
(* grid renderer colormaps, and the notebook cells that select entries of  *)
(* the registry cc.cm by name and show them.                               *)
(*                                                                         *)
(* A name is a Python str, modelled as the sequence of its characters.     *)
(* A colormap is an opaque object or identifier, modelled as a string.     *)
(* An entry is a pair <<name, colormap>>.  The registry cc.cm is an        *)
(* ordered mapping, modelled as a sequence of entries with distinct names. *)
(***************************************************************************)
EXTENDS Integers, Sequences, FiniteSets

VARIABLES
    cm,                 \* the registry cc.cm
    xs,                 \* the module-level default gradient array
    sine,               \* the test image loaded from the asset file
    args,               \* the arguments of the most recent call, as passed
    caller_named_cms,   \* the caller's sequence object once that call is over
    named_cms,          \* colormaps' local named_cms once line 46 is passed
    lookups,            \* the registry keys that call read, in order
    result,             \* what the call returned or raised
    out,                \* the notebook's cell outputs
    memo,               \* an earlier call and its result, kept by the caller
    pc                  \* "ready": args are evaluated, the call is to be made;
                        \* "returned": the call of args is over

vars ==
    <<cm, xs, sine, args, caller_named_cms, named_cms, lookups, result, out, memo, pc>>

----------------------------------------------------------------------------
(* Bounds of the model *)

MaxLen == 3

MaxCols == 3

DetMaxLen == 2

----------------------------------------------------------------------------
(* Python values *)

None == "None"

s_r == <<"_", "r">>

s_linear == <<"l", "i", "n", "e", "a", "r">>

s_diverging == <<"d", "i", "v", "e", "r", "g", "i", "n", "g">>

s_cyclic == <<"c", "y", "c", "l", "i", "c">>

s_isoluminant == <<"i", "s", "o", "l", "u", "m", "i", "n", "a", "n", "t">>

s_rainbow == <<"r", "a", "i", "n", "b", "o", "w">>

s_fire == <<"f", "i", "r", "e">>

s_viridis == <<"v", "i", "r", "i", "d", "i", "s">>

(* str.endswith(suffix) *)
endswith(s, suffix) ==
    /\ Len(suffix) <= Len(s)
    /\ SubSeq(s, Len(s) - Len(suffix) + 1, Len(s)) = suffix

(* sub in s, for two str *)
contains(s, sub) ==
    \E i \in 0..(Len(s) - Len(sub)) : SubSeq(s, i + 1, i + Len(sub)) = sub

(* Variant: the marker is taken to be 'r' *)
keep_entry_any_r(x) == ~endswith(x[1], <<"r">>)

(* list(filter(pred, seq)) with pred the lambda of line 46 *)
keep_entry(x) == ~endswith(x[1], s_r)

(* Variant: the marked entries are removed from the list while a loop walks *)
(* it, so the entry after each removed one is never looked at.             *)
remove_first(seq, x) ==
    LET k == CHOOSE k \in 1..Len(seq) : seq[k] = x /\ \A j \in 1..(k - 1) : seq[j] # x
    IN  SubSeq(seq, 1, k - 1) \o SubSeq(seq, k + 1, Len(seq))

RECURSIVE remove_in_loop(_, _)
remove_in_loop(seq, i) ==
    IF i > Len(seq) THEN seq
    ELSE IF endswith(seq[i][1], s_r)
         THEN remove_in_loop(remove_first(seq, seq[i]), i + 1)
         ELSE remove_in_loop(seq, i + 1)

filter_remove_in_loop(seq) == remove_in_loop(seq, 1)

filter_skip_r(seq) == SelectSeq(seq, keep_entry)

----------------------------------------------------------------------------
(* The registry cc.cm *)

registry_has(name) == \E i \in 1..Len(cm) : cm[i][1] = name

registry_get(name) == cm[CHOOSE i \in 1..Len(cm) : cm[i][1] = name][2]

(* cc.cm.items(): the entries in the registry's order *)
items(reg) == reg

----------------------------------------------------------------------------
(* What the plotting library builds *)

NoExc == [type |-> "none", key |-> << >>]

KeyError(name) == [type |-> "KeyError", key |-> name]

NoValue == [kind |-> "none"]

(* hv.opts.Image(xaxis=None, yaxis=None, aspect=3, fig_size=200, cmap=cmap) *)
opts_Image(cmap) ==
    [xaxis |-> None, yaxis |-> None, aspect |-> 3, fig_size |-> 200, cmap |-> cmap]

(* hv.Image(array, group=name).opts(options) *)
Image(array, name, options) ==
    [kind |-> "Image", data |-> array, group |-> name, opts |-> options]

(* hv.opts.Layout(sublabel_format=None, fig_size=size) *)
opts_Layout(size) == [sublabel_format |-> None, fig_size |-> size]

(* hv.Layout(swatches).opts(options).cols(cols) *)
Layout(swatches, options, cols) ==
    [kind |-> "Layout", items |-> swatches, opts |-> options, cols |-> cols]

(* The grid a layout is drawn as: its items in order, wrapping to a new row *)
(* after every cols items.                                                  *)
RECURSIVE wrap(_, _)
wrap(swatches, cols) ==
    IF swatches = << >> THEN << >>
    ELSE IF Len(swatches) <= cols THEN <<swatches>>
    ELSE <<SubSeq(swatches, 1, cols)>> \o wrap(SubSeq(swatches, cols + 1, Len(swatches)), cols)

rows(layout) == wrap(layout.items, layout.cols)

----------------------------------------------------------------------------
(* The two helpers of the notebook *)

(* Variant: the registry is read whether or not a colormap was given *)
colormap_always_lookup(name, cmap, array) ==
    IF registry_has(name)
    THEN [raised |-> FALSE, exc |-> NoExc, lookups |-> <<name>>,
          value |-> Image(array, name, opts_Image(registry_get(name)))]
    ELSE [raised |-> TRUE, exc |-> KeyError(name), lookups |-> <<name>>,
          value |-> NoValue]

(* Variant: the registry is read under matplotlib's key, 'cet_' + name *)
colormap_cet_key(name, cmap, array) ==
    LET key == <<"c", "e", "t", "_">> \o name
    IN  IF cmap = None
        THEN IF registry_has(key)
             THEN [raised |-> FALSE, exc |-> NoExc, lookups |-> <<key>>,
                   value |-> Image(array, name, opts_Image(registry_get(key)))]
             ELSE [raised |-> TRUE, exc |-> KeyError(key), lookups |-> <<key>>,
                   value |-> NoValue]
        ELSE [raised |-> FALSE, exc |-> NoExc, lookups |-> << >>,
              value |-> Image(array, name, opts_Image(cmap))]

(* Variant: the colormap last read from the registry is kept and reused *)
colormap_cached(name, cmap, array) ==
    IF cmap = None
    THEN IF lookups # << >> /\ registry_has(lookups[Len(lookups)])
         THEN [raised |-> FALSE, exc |-> NoExc, lookups |-> << >>,
               value |-> Image(array, name,
                               opts_Image(registry_get(lookups[Len(lookups)])))]
         ELSE IF registry_has(name)
         THEN [raised |-> FALSE, exc |-> NoExc, lookups |-> <<name>>,
               value |-> Image(array, name, opts_Image(registry_get(name)))]
         ELSE [raised |-> TRUE, exc |-> KeyError(name), lookups |-> <<name>>,
               value |-> NoValue]
    ELSE [raised |-> FALSE, exc |-> NoExc, lookups |-> << >>,
          value |-> Image(array, name, opts_Image(cmap))]

(* def colormap(name, cmap=None, array=xs) *)
colormap(name, cmap, array) ==
    IF cmap = None
    THEN IF registry_has(name)
         THEN [raised |-> FALSE, exc |-> NoExc, lookups |-> <<name>>,
               value |-> Image(array, name, opts_Image(registry_get(name)))]
         ELSE [raised |-> TRUE, exc |-> KeyError(name), lookups |-> <<name>>,
               value |-> NoValue]
    ELSE [raised |-> FALSE, exc |-> NoExc, lookups |-> << >>,
          value |-> Image(array, name, opts_Image(cmap))]

(* Variant: an entry whose swatch cannot be rendered is skipped *)
RECURSIVE comprehension_skip_failed(_, _)
comprehension_skip_failed(seq, array) ==
    IF seq = << >>
    THEN [raised |-> FALSE, exc |-> NoExc, lookups |-> << >>, swatches |-> << >>]
    ELSE LET h == colormap(seq[1][1], seq[1][2], array)
             t == comprehension_skip_failed(Tail(seq), array)
         IN  [raised |-> FALSE, exc |-> NoExc,
              lookups |-> h.lookups \o t.lookups,
              swatches |-> IF h.raised THEN t.swatches
                           ELSE <<h.value>> \o t.swatches]

(* Variant: colormap(name, cm) is called without the array, which then is *)
(* colormap's default, xs                                                  *)
RECURSIVE comprehension_default_array(_, _)
comprehension_default_array(seq, array) ==
    IF seq = << >>
    THEN [raised |-> FALSE, exc |-> NoExc, lookups |-> << >>, swatches |-> << >>]
    ELSE LET h == colormap(seq[1][1], seq[1][2], xs)
         IN  IF h.raised
             THEN [raised |-> TRUE, exc |-> h.exc, lookups |-> h.lookups,
                   swatches |-> << >>]
             ELSE LET t == comprehension_default_array(Tail(seq), array)
                  IN  [raised |-> t.raised, exc |-> t.exc,
                       lookups |-> h.lookups \o t.lookups,
                       swatches |-> IF t.raised THEN << >>
                                    ELSE <<h.value>> \o t.swatches]

(* [colormap(name, cm, array) for name, cm in named_cms]: evaluated left to *)
(* right, and abandoned at the first call that raises.                      *)
RECURSIVE comprehension(_, _)
comprehension(seq, array) ==
    IF seq = << >>
    THEN [raised |-> FALSE, exc |-> NoExc, lookups |-> << >>, swatches |-> << >>]
    ELSE LET h == colormap(seq[1][1], seq[1][2], array)
         IN  IF h.raised
             THEN [raised |-> TRUE, exc |-> h.exc, lookups |-> h.lookups,
                   swatches |-> << >>]
             ELSE LET t == comprehension(Tail(seq), array)
                  IN  [raised |-> t.raised, exc |-> t.exc,
                       lookups |-> h.lookups \o t.lookups,
                       swatches |-> IF t.raised THEN << >>
                                    ELSE <<h.value>> \o t.swatches]

(* The defaults of colormaps' parameters cols and size *)
cols_default == 3

size_default == 100

(* Variant: the layout is wrapped at the default column count, whatever    *)
(* cols the caller gave                                                    *)
colormaps_default_cols(named, array, cols, skip_r, size) ==
    LET local == IF skip_r THEN filter_skip_r(named) ELSE named
        options == opts_Layout(size)
        c == comprehension(local, array)
    IN  [raised |-> c.raised, exc |-> c.exc, lookups |-> c.lookups,
         named_cms |-> local,
         value |-> IF c.raised THEN NoValue
                   ELSE Layout(c.swatches, options, cols_default)]

(* def colormaps(named_cms, array=xs, cols=3, skip_r=True, size=100) *)
colormaps(named, array, cols, skip_r, size) ==
    LET local == IF skip_r THEN filter_skip_r(named) ELSE named
        options == opts_Layout(size)
        c == comprehension(local, array)
    IN  [raised |-> c.raised, exc |-> c.exc, lookups |-> c.lookups,
         named_cms |-> local,
         value |-> IF c.raised THEN NoValue
                   ELSE Layout(c.swatches, options, cols)]

(* Variant: the filter empties and refills the list that was passed in *)
caller_after_in_place(named, skip_r) ==
    IF skip_r THEN filter_skip_r(named) ELSE named

(* The caller's sequence once colormaps is over: line 46 binds the local   *)
(* name to a new list and leaves the object that was passed in alone.      *)
caller_after(named, skip_r) == named

----------------------------------------------------------------------------
(* The selections the notebook cells make over the registry *)

(* Variant: the linear selection does not exclude the diverging names *)
is_linear_any(e) == contains(e[1], s_linear)

is_linear(e) == contains(e[1], s_linear) /\ ~contains(e[1], s_diverging)

is_diverging(e) == contains(e[1], s_diverging)

is_misc(e) ==
    \/ contains(e[1], s_cyclic)
    \/ contains(e[1], s_isoluminant)
    \/ contains(e[1], s_rainbow)

(* [(name, cm) for name, cm in cc.cm.items() if "linear" in name and "diverging" not in name] *)
linear_selection(reg) == SelectSeq(items(reg), is_linear)

(* [(name, cm) for name, cm in cc.cm.items() if "diverging" in name] *)
diverging_selection(reg) == SelectSeq(items(reg), is_diverging)

(* [(name, cm) for name, cm in cc.cm.items() if "cyclic" in name or ...] *)
misc_selection(reg) == SelectSeq(items(reg), is_misc)

----------------------------------------------------------------------------
(* Inputs *)

n_fire_r == s_fire \o s_r

n_linear_b == s_linear \o <<"_", "b">>

n_diverging_b == s_diverging \o <<"_", "b">>

n_diverging_linear_b == s_diverging \o <<"_">> \o s_linear \o <<"_", "b">>

n_inferno == <<"i", "n", "f", "e", "r", "n", "o">>

(* A registry shaped like colorcet's: long names by category, short names, *)
(* reversed variants.                                                       *)
BaseCm ==
    << <<s_fire, "m_fire">>,
       <<n_fire_r, "m_fire_r">>,
       <<n_linear_b, "m_linear_b">>,
       <<n_diverging_b, "m_diverging_b">>,
       <<n_diverging_linear_b, "m_diverging_linear_b">>,
       <<s_rainbow, "m_rainbow">> >>

(* The order-preserving subsequences of a sequence *)
RECURSIVE SubSeqs(_)
SubSeqs(seq) ==
    IF seq = << >> THEN {<< >>}
    ELSE LET rest == SubSeqs(Tail(seq))
         IN  rest \cup {<<Head(seq)>> \o s : s \in rest}

Registries == SubSeqs(BaseCm)

(* Entries a caller may pass: names in the registry or not, ending in '_r' *)
(* or not, shorter than the marker, the marker alone, the marker not at    *)
(* the end; with no colormap, the registry's object or an identifier.      *)
Entries ==
    { <<s_fire, None>>, <<s_fire, "viridis">>,
      <<n_fire_r, None>>, <<n_fire_r, "m_fire_r">>,
      <<s_rainbow, "m_rainbow">>,
      <<s_viridis, None>>, <<s_viridis, "viridis">>,
      <<<<"r">>, "viridis">>, <<s_r, None>>, <<<<"_", "r", "b">>, "m_fire">> }

SessionEntries == { <<n_fire_r, None>>, <<s_viridis, None>> }

SeqsUpTo(S, n) == UNION {[1..k -> S] : k \in 0..n}


XsGradient == "meshgrid(linspace(0, 1, 80), linspace(0, 1, 10))[0]"

SineImage == "colourmaptest.npy"

(* The array and size pairs the notebook calls colormaps with *)
ArraysAndSizes == {<<XsGradient, size_default>>, <<SineImage, 200>>}

Cells == {"linear", "diverging", "misc", "all", "viridis", "all_sine"}

args_colormaps(named, array, cols, skip_r, size) ==
    [fn |-> "colormaps", named_cms |-> named, name |-> << >>, cmap |-> None,
     array |-> array, cols |-> cols, skip_r |-> skip_r, size |-> size]

args_colormap(name, cmap, array) ==
    [fn |-> "colormap", named_cms |-> << >>, name |-> name, cmap |-> cmap,
     array |-> array, cols |-> 0, skip_r |-> FALSE, size |-> 0]

NoArgs ==
    [fn |-> "none", named_cms |-> << >>, name |-> << >>, cmap |-> None,
     array |-> None, cols |-> 0, skip_r |-> FALSE, size |-> 0]

NoResult == [raised |-> FALSE, exc |-> NoExc, value |-> NoValue]

NoOutput == [ran |-> FALSE, selection |-> << >>, result |-> NoResult]

NoMemo == [set |-> FALSE, between |-> FALSE, args |-> NoArgs, result |-> NoResult]

(* The calls a caller may be about to make *)
UserCalls ==
    {args_colormaps(named, shown[1], cols, skip_r, shown[2]) :
        named \in SeqsUpTo(Entries, MaxLen), shown \in ArraysAndSizes,
        cols \in 1..MaxCols, skip_r \in BOOLEAN}
    \cup
    {args_colormap(e[1], e[2], array) :
        e \in Entries, array \in {XsGradient, SineImage}}

SessionCalls ==
    {args_colormaps(named, array, cols_default, skip_r, size_default) :
        named \in SeqsUpTo(SessionEntries, DetMaxLen),
        array \in {XsGradient, SineImage}, skip_r \in BOOLEAN}
    \cup
    {args_colormap(e[1], cmap, XsGradient) :
        e \in SessionEntries \cup {<<s_fire, None>>}, cmap \in {None, "viridis"}}

----------------------------------------------------------------------------
(* State machine *)

InitIdle ==
    /\ xs = XsGradient
    /\ sine = SineImage
    /\ args = NoArgs
    /\ caller_named_cms = << >>
    /\ named_cms = << >>
    /\ lookups = << >>
    /\ result = NoResult
    /\ out = [c \in Cells |-> NoOutput]
    /\ memo = NoMemo
    /\ pc = "returned"

(* The caller has evaluated the arguments of one call *)
Init ==
    /\ cm = BaseCm
    /\ xs = XsGradient
    /\ sine = SineImage
    /\ args \in UserCalls
    /\ caller_named_cms = args.named_cms
    /\ named_cms = << >>
    /\ lookups = << >>
    /\ result = NoResult
    /\ out = [c \in Cells |-> NoOutput]
    /\ memo = NoMemo
    /\ pc = "ready"

(* The effect of a call colormaps(named, array, cols, skip_r, size) *)
call_colormaps(named, array, cols, skip_r, size) ==
    LET r == colormaps(named, array, cols, skip_r, size)
    IN  /\ args' = args_colormaps(named, array, cols, skip_r, size)
        /\ caller_named_cms' = caller_after(named, skip_r)
        /\ named_cms' = r.named_cms
        /\ lookups' = r.lookups
        /\ result' = [raised |-> r.raised, exc |-> r.exc, value |-> r.value]
        /\ pc' = "returned"
        /\ UNCHANGED <<cm, xs, sine>>

(* The effect of a call colormap(name, cmap, array) *)
call_colormap(name, cmap, array) ==
    LET r == colormap(name, cmap, array)
    IN  /\ args' = args_colormap(name, cmap, array)
        /\ caller_named_cms' = << >>
        /\ named_cms' = << >>
        /\ lookups' = r.lookups
        /\ result' = [raised |-> r.raised, exc |-> r.exc, value |-> r.value]
        /\ pc' = "returned"
        /\ UNCHANGED <<cm, xs, sine>>

(* The pending call is made *)
RunColormaps ==
    /\ pc = "ready"
    /\ args.fn = "colormaps"
    /\ call_colormaps(args.named_cms, args.array, args.cols, args.skip_r, args.size)
    /\ UNCHANGED <<out, memo>>

RunColormap ==
    /\ pc = "ready"
    /\ args.fn = "colormap"
    /\ call_colormap(args.name, args.cmap, args.array)
    /\ UNCHANGED <<out, memo>>

Next == RunColormaps \/ RunColormap

Spec == Init /\ [][Next]_vars

----------------------------------------------------------------------------
(* One call over a registry of any content: a swatch by name, or a grid of *)
(* some of the registry's items.                                           *)

names_of(reg) == {reg[i][1] : i \in 1..Len(reg)}

RegistryCalls(reg) ==
    {args_colormaps(named, XsGradient, cols, skip_r, size_default) :
        named \in SubSeqs(items(reg)), cols \in 1..MaxCols, skip_r \in BOOLEAN}
    \cup
    {args_colormap(name, None, XsGradient) : name \in names_of(BaseCm)}

InitRegistry ==
    /\ cm \in Registries
    /\ xs = XsGradient
    /\ sine = SineImage
    /\ args \in RegistryCalls(cm)
    /\ caller_named_cms = args.named_cms
    /\ named_cms = << >>
    /\ lookups = << >>
    /\ result = NoResult
    /\ out = [c \in Cells |-> NoOutput]
    /\ memo = NoMemo
    /\ pc = "ready"

SpecRegistry == InitRegistry /\ [][Next]_vars

----------------------------------------------------------------------------
(* The notebook's cells, run in any order and any number of times over a   *)
(* registry of any content.                                                *)

InitNotebook == cm \in Registries /\ InitIdle

run_cell(cell, selection, array, cols, skip_r, size) ==
    /\ call_colormaps(selection, array, cols, skip_r, size)
    /\ out' = [out EXCEPT ![cell] =
                  [ran |-> TRUE, selection |-> selection, result |-> result']]
    /\ UNCHANGED memo

(* colormaps([... if "linear" in name and "diverging" not in name]) *)
CellLinear == run_cell("linear", linear_selection(cm), xs, cols_default, TRUE, size_default)

(* colormaps([... if "diverging" in name]) *)
CellDiverging == run_cell("diverging", diverging_selection(cm), xs, cols_default, TRUE, size_default)

(* colormaps([... if "cyclic" in name or "isoluminant" in name or "rainbow" in name]) *)
CellMisc == run_cell("misc", misc_selection(cm), xs, cols_default, TRUE, size_default)

(* colormaps(cc.cm.items()) *)
CellAll == run_cell("all", items(cm), xs, cols_default, TRUE, size_default)

(* colormaps([("viridis", "viridis"), ("inferno", "inferno")], cols=1, array=sine, size=200) *)
CellViridis ==
    run_cell("viridis", << <<s_viridis, "viridis">>, <<n_inferno, "inferno">> >>,
             sine, 1, TRUE, 200)

(* colormaps(cc.cm.items(), cols=2, array=sine, size=200) *)
CellAllSine == run_cell("all_sine", items(cm), sine, 2, TRUE, 200)

NextNotebook ==
    \/ CellLinear
    \/ CellDiverging
    \/ CellMisc
    \/ CellAll
    \/ CellViridis
    \/ CellAllSine

SpecNotebook == InitNotebook /\ [][NextNotebook]_vars

----------------------------------------------------------------------------
(* A session: calls one after another, the caller now and then keeping a   *)
(* call and its result to compare with later ones.                         *)

InitSession == cm = BaseCm /\ InitIdle

(* The caller notes whether a different call came after the one kept *)
note_call(a) ==
    /\ memo' = IF memo.set /\ a # memo.args THEN [memo EXCEPT !.between = TRUE]
               ELSE memo
    /\ UNCHANGED out

SessionColormaps ==
    \E a \in SessionCalls :
        /\ a.fn = "colormaps"
        /\ call_colormaps(a.named_cms, a.array, a.cols, a.skip_r, a.size)
        /\ note_call(a)

SessionColormap ==
    \E a \in SessionCalls :
        /\ a.fn = "colormap"
        /\ call_colormap(a.name, a.cmap, a.array)
        /\ note_call(a)

Remember ==
    /\ args.fn # "none"
    /\ memo' = [set |-> TRUE, between |-> FALSE, args |-> args, result |-> result]
    /\ UNCHANGED <<cm, xs, sine, args, caller_named_cms, named_cms, lookups,
                   result, out, pc>>

NextSession == SessionColormaps \/ SessionColormap \/ Remember

SpecSession == InitSession /\ [][NextSession]_vars

----------------------------------------------------------------------------
(* Vocabulary of the properties, stated apart from the code's operators *)

(* The name's last two characters are '_' and 'r' *)
ends_in_marker(name) ==
    /\ Len(name) >= 2
    /\ name[Len(name) - 1] = "_"
    /\ name[Len(name)] = "r"

unmarked(seq) == {i \in 1..Len(seq) : ~ends_in_marker(seq[i][1])}

(* The entries of seq whose name is unmarked, in seq's order *)
unmarked_entries(seq) ==
    LET K == unmarked(seq)
    IN  [j \in 1..Cardinality(K) |->
            seq[CHOOSE i \in K : Cardinality({k \in K : k <= i}) = j]]

(* The entries colormaps is to render *)
remaining(a) == IF a.skip_r THEN unmarked_entries(a.named_cms) ELSE a.named_cms

(* The colormap the registry holds for name is c *)
registered(name, c) == \E i \in 1..Len(cm) : cm[i] = <<name, c>>

unknown(e) == e[2] = None /\ \A c \in {cm[i][2] : i \in 1..Len(cm)} : ~registered(e[1], c)

returned_colormaps == pc = "returned" /\ args.fn = "colormaps"

returned_colormap == pc = "returned" /\ args.fn = "colormap"

----------------------------------------------------------------------------
(* Properties *)

(* C1: with skip_r set, colormaps drops exactly the entries whose name     *)
(* ends in '_r' and keeps all the others, duplicates included, in their    *)
(* original order; an entry's colormap plays no part in the decision.      *)
C1_SkipRemovesExactlyReversed ==
    (returned_colormaps /\ args.skip_r) =>
        LET K == unmarked(args.named_cms)
        IN  /\ Len(named_cms) = Cardinality(K)
            /\ \A i \in K :
                   named_cms[Cardinality({k \in K : k <= i})] = args.named_cms[i]
            /\ \A i \in 1..Len(args.named_cms) :
                   (i \in K) <=> (\E j \in 1..Len(named_cms) :
                                     named_cms[j][1] = args.named_cms[i][1])

C1_Witness ==
    /\ returned_colormaps /\ args.skip_r
    /\ args.named_cms = << <<s_fire, "viridis">>, <<n_fire_r, "m_fire_r">>,
                           <<s_rainbow, "m_rainbow">> >>
    /\ named_cms = << <<s_fire, "viridis">>, <<s_rainbow, "m_rainbow">> >>

(* C10: the skip_r filter is idempotent and leaves no name ending in '_r'; *)
(* on entries none of which ends in '_r' it changes nothing, so skip_r set *)
(* and skip_r unset give the same layout there.                            *)
C10_SkipIdempotent ==
    (returned_colormaps /\ args.skip_r) =>
        /\ filter_skip_r(named_cms) = named_cms
        /\ \A j \in 1..Len(named_cms) : ~ends_in_marker(named_cms[j][1])
        /\ (\A i \in 1..Len(args.named_cms) : ~ends_in_marker(args.named_cms[i][1]))
              => /\ named_cms = args.named_cms
                 /\ LET r == colormaps(args.named_cms, args.array, args.cols,
                                       FALSE, args.size)
                    IN  result = [raised |-> r.raised, exc |-> r.exc,
                                  value |-> r.value]

C10_Witness ==
    /\ returned_colormaps /\ args.skip_r
    /\ Len(args.named_cms) = 3
    /\ Len(named_cms) = 1
    /\ filter_skip_r(named_cms) = named_cms

(* C2: a layout of N swatches at column count C >= 1 is drawn as ceil(N/C) *)
(* rows, N being the number of entries left by the optional skip_r filter; *)
(* every row but the last holds exactly C swatches.                        *)
C2_GridRows ==
    (returned_colormaps /\ ~result.raised) =>
        LET N == IF args.skip_r THEN Cardinality(unmarked(args.named_cms))
                 ELSE Len(args.named_cms)
            C == args.cols
            grid == rows(result.value)
        IN  /\ Len(grid) = (N + C - 1) \div C
            /\ \A r \in 1..Len(grid) :
                   IF r < Len(grid) THEN Len(grid[r]) = C
                   ELSE Len(grid[r]) = N - C * (Len(grid) - 1)

C2_Witness ==
    /\ returned_colormaps /\ ~result.raised
    /\ args.cols = 2
    /\ Len(args.named_cms) = 3
    /\ Len(result.value.items) = 3
    /\ Len(rows(result.value)) = 2
    /\ Len(rows(result.value)[2]) = 1

(* C3: for every name that is a key of the registry, colormap(name) with   *)
(* no explicit colormap raises nothing and returns a swatch of that name;  *)
(* colormaps over any subsequence of the registry's items raises nothing   *)
(* and returns a layout.                                                   *)
C3_RegistryNamesRender ==
    /\ (returned_colormap /\ args.cmap = None /\ args.name \in names_of(cm)) =>
           /\ ~result.raised
           /\ result.value.kind = "Image"
           /\ result.value.group = args.name
    /\ (returned_colormaps /\ args.named_cms \in SubSeqs(items(cm))) =>
           /\ ~result.raised
           /\ result.value.kind = "Layout"

C3_Witness ==
    /\ returned_colormap /\ args.cmap = None
    /\ args.name = n_fire_r
    /\ n_fire_r \in names_of(cm)
    /\ Len(cm) = 2
    /\ ~result.raised
    /\ result.value.kind = "Image"

(* C4: colormap reads the registry if and only if no colormap is given:    *)
(* without one the swatch carries the registry's colormap for the name,    *)
(* with one it carries exactly that value and the registry is not read, so *)
(* a name the registry does not hold still renders.                        *)
C4_LookupIffNoCmap ==
    returned_colormap =>
        /\ (lookups # << >>) <=> (args.cmap = None)
        /\ args.cmap = None =>
               /\ lookups = <<args.name>>
               /\ ~result.raised => registered(args.name, result.value.opts.cmap)
        /\ args.cmap # None =>
               /\ ~result.raised
               /\ result.value.kind = "Image"
               /\ result.value.opts.cmap = args.cmap

C4_Witness ==
    /\ returned_colormap
    /\ args.name = s_viridis /\ args.cmap = "viridis"
    /\ s_viridis \notin names_of(cm)
    /\ lookups = << >>
    /\ ~result.raised
    /\ result.value.opts.cmap = "viridis"

(* C5: a name the registry does not hold, given with no colormap, makes    *)
(* colormap raise the registry's KeyError for that name; inside colormaps  *)
(* the first such entry among those to render makes the whole call raise   *)
(* that same error, and no layout, partial or other, is returned.          *)
C5_UnknownNameRaises ==
    /\ (returned_colormap /\ unknown(<<args.name, args.cmap>>)) =>
           /\ result.raised
           /\ result.exc = [type |-> "KeyError", key |-> args.name]
           /\ result.value = NoValue
    /\ returned_colormaps =>
           LET todo == remaining(args)
               bad == {i \in 1..Len(todo) : unknown(todo[i])}
           IN  IF bad = {}
               THEN ~result.raised
               ELSE LET first == CHOOSE i \in bad : \A j \in bad : i <= j
                    IN  /\ result.raised
                        /\ result.exc = [type |-> "KeyError", key |-> todo[first][1]]
                        /\ result.value = NoValue

C5_Witness ==
    /\ returned_colormaps
    /\ args.named_cms = << <<s_fire, None>>, <<s_viridis, None>>, <<<<"r">>, "viridis">> >>
    /\ result.raised
    /\ result.exc.key = s_viridis
    /\ result.value = NoValue

(* C6: a colormaps call that returns holds one swatch per entry left after *)
(* the optional filter, in order: the i-th swatch is labelled with the     *)
(* i-th entry's name and carries that entry's colormap (the registry's one *)
(* for the name when the entry gives none) and the array of the call; with *)
(* skip_r unset nothing is filtered, names ending in '_r' included.        *)
C6_OneSwatchPerEntry ==
    (returned_colormaps /\ ~result.raised) =>
        LET todo == remaining(args)
            shown == result.value.items
        IN  /\ ~args.skip_r => todo = args.named_cms
            /\ Len(shown) = Len(todo)
            /\ \A i \in 1..Len(todo) :
                   /\ shown[i].group = todo[i][1]
                   /\ shown[i].data = args.array
                   /\ IF todo[i][2] # None
                      THEN shown[i].opts.cmap = todo[i][2]
                      ELSE registered(todo[i][1], shown[i].opts.cmap)

C6_Witness ==
    /\ returned_colormaps /\ ~result.raised
    /\ ~args.skip_r
    /\ args.array = SineImage
    /\ args.named_cms = << <<n_fire_r, "m_fire_r">>, <<s_fire, "viridis">>,
                           <<n_fire_r, "m_fire_r">> >>
    /\ Len(result.value.items) = 3
    /\ result.value.items[3].group = n_fire_r

C8_CallsChangeNothing ==
    [][/\ cm' = cm
       /\ xs' = xs
       /\ sine' = sine
       /\ (pc' = "returned" /\ args'.fn = "colormaps") =>
              caller_named_cms' = args'.named_cms]_vars

C8_Witness ==
    /\ returned_colormaps /\ args.skip_r
    /\ memo.set
    /\ result.raised
    /\ args.named_cms = <<  <<n_fire_r, None>>, <<s_viridis, None>> >>
    /\ named_cms = << <<s_viridis, None>> >>
    /\ caller_named_cms = args.named_cms
    /\ cm = BaseCm /\ xs = XsGradient /\ sine = SineImage

(* C9: the linear and the diverging selections are order-preserving        *)
(* subsequences of the registry's items and share no entry: a name that    *)
(* contains both 'linear' and 'diverging' is in the diverging selection    *)
(* only, and no name is shown in both grids.                               *)
C9_SelectionsDisjoint ==
    LET lin == out["linear"]
        div == out["diverging"]
        both == {i \in 1..Len(cm) :
                    contains(cm[i][1], s_linear) /\ contains(cm[i][1], s_diverging)}
        in(e, seq) == \E j \in 1..Len(seq) : seq[j] = e
        shown(o) == {o.result.value.items[j].group :
                        j \in 1..Len(o.result.value.items)}
    IN  /\ lin.ran =>
               /\ lin.selection \in SubSeqs(items(cm))
               /\ \A i \in both : ~in(cm[i], lin.selection)
        /\ div.ran =>
               /\ div.selection \in SubSeqs(items(cm))
               /\ \A i \in both : in(cm[i], div.selection)
        /\ (lin.ran /\ div.ran) =>
               /\ \A i \in 1..Len(cm) :
                      ~(in(cm[i], lin.selection) /\ in(cm[i], div.selection))
               /\ shown(lin) \cap shown(div) = {}

C9_Witness ==
    /\ out["linear"].ran /\ out["diverging"].ran
    /\ cm = BaseCm
    /\ out["linear"].selection =
           << <<n_linear_b, "m_linear_b">> >>
    /\ out["diverging"].selection =
           << <<n_diverging_b, "m_diverging_b">>,
              <<n_diverging_linear_b, "m_diverging_linear_b">> >>

====
